---- MODULE Spec2Model ----
(***************************************************************************)
(* yaml_metadata.py: a tree of !Table definitions is turned into a         *)
(* MetaData registry of tables.  construct_table is modelled statement by  *)
(* statement with an explicit call stack, so that the states in the middle *)
(* of a build (a table registered, its columns not yet added) are states   *)
(* of the model.                                                           *)
(***************************************************************************)
EXTENDS Integers, Sequences, FiniteSets, TLC

VARIABLES
    defs,        \* the TableDefinition objects of the loaded document; defs[1] is the root
    registry,    \* table_metadata.tables of the MetaData being built: its tables, in order
    builder,     \* for each table of registry, the definition object whose call registered it
    previous,    \* the tables of the MetaData object of the build before this one
    stack,       \* the active calls of construct_table, innermost last
    status,      \* "idle", "running", "returned" or "raised"
    error,       \* the exception that ended the build, NoError otherwise
    mode,        \* the outermost call: "generate_metadata", "new_registry" or "same_registry"
    passed       \* number of construct_table calls of this build that went past line 66

vars == <<defs, registry, builder, previous, stack, status, error, mode, passed>>

----------------------------------------------------------------------------
(* Bounds of the model. *)

MaxDefs == 2      \* TableDefinition objects in a document
MaxEntries == 3   \* entries of all the columns maps of a document together

----------------------------------------------------------------------------
(* The documents. *)

TableNames == <<"A", "B", "C", "D">>
ColNames == <<"c1", "c2", "c3", "c4", "c5">>

\* sqlalchemy.types holds String and Integer; it holds no Bogus.
TypeCatalog == {"String", "Integer"}
TypeNames == {"String", "Bogus"}

\* An entry of a columns map: a type name, or a nested TableDefinition
\* (table is its index in defs, 0 for a plain column).
Entry(name, type, table) == [name |-> name, type |-> type, table |-> table]

IsTableDefinition(value) == value.table # 0

\* primary_key is <<>> when the object has no such attribute.
TableDefinition(name, columns, primary_key) ==
    [name |-> name, columns |-> columns, primary_key |-> primary_key]

HasPrimaryKeyAttr(table_def) == table_def.primary_key # <<>>

EntryValues(n) ==
    {[type |-> t, table |-> 0] : t \in TypeNames}
        \cup {[type |-> "", table |-> j] : j \in 1..n}

ColumnMaps(n, l) ==
    {[k \in 1..l |-> Entry(ColNames[k], f[k].type, f[k].table)] :
        f \in [1..l -> EntryValues(n)]}

\* A declared primary key names a plain entry of the columns map.
PlainKey(d) ==
    IF d.primary_key = <<>> THEN TRUE
    ELSE \E k \in DOMAIN d.columns :
            /\ d.columns[k].name = d.primary_key[1]
            /\ ~IsTableDefinition(d.columns[k])

KeyChoices(l) == {<<>>} \cup {<<ColNames[k]>> : k \in 1..l}

Nested(g, i) == {g[i].columns[k].table : k \in DOMAIN g[i].columns} \ {0}

\* Every object but the root is the value of some entry.
AllReferenced(g) == \A j \in 2..Len(g) : \E i \in 1..Len(g) : j \in Nested(g, i)

\* g is the first j - 1 objects of a document of n objects, budget the
\* number of entries the others may have: the documents that extend g.
RECURSIVE IsDocument(_, _, _, _, _)
IsDocument(doc, g, j, n, budget) ==
    IF j > n
    THEN AllReferenced(g) /\ doc = g
    ELSE \E l \in 0..budget, m \in 1..j :
           \E c \in ColumnMaps(n, l), pk \in KeyChoices(l) :
              /\ PlainKey(TableDefinition(TableNames[m], c, pk))
              /\ IsDocument(doc, Append(g, TableDefinition(TableNames[m], c, pk)),
                            j + 1, n, budget - l)

\* The document of lines 109-119.
PeopleDocument ==
    << TableDefinition("people",
           << Entry("firstName", "String", 0),
              Entry("lastName", "String", 0),
              Entry("inventory", "", 2) >>, <<>>),
       TableDefinition("items", << Entry("description", "String", 0) >>, <<>>) >>

\* Documents whose column names meet the names the code makes up: an
\* ordinary column named id beside the default key; a child with an ordinary
\* column of the name of the foreign key it receives; a table that nests
\* itself and has an ordinary column of that name, after or before the
\* nesting entry.
NameClashDocuments ==
    { << TableDefinition("A", << Entry("c1", "String", 0), Entry("id", "String", 0) >>, <<>>) >>,
      << TableDefinition("A", << Entry("c1", "", 2) >>, <<>>),
         TableDefinition("B", << Entry("A_A.id", "String", 0),
                                 Entry("c2", "String", 0) >>, <<>>) >>,
      << TableDefinition("A", << Entry("c1", "", 1), Entry("c2", "String", 0),
                                 Entry("A_A.id", "String", 0) >>, <<>>) >>,
      << TableDefinition("A", << Entry("A_A.id", "String", 0), Entry("c1", "", 1) >>, <<>>) >> }

\* yaml.load(file_object): the document read
Load(doc) ==
    \/ \E n \in 1..MaxDefs : IsDocument(doc, <<>>, 1, n, MaxEntries)
    \/ doc = PeopleDocument
    \/ doc \in NameClashDocuments

----------------------------------------------------------------------------
(* sqlalchemy objects. *)

NoError == [exception |-> "", args |-> <<>>]
NoColumn == [name |-> "", type |-> "", primary_key |-> FALSE, foreign_key |-> <<>>]

\* Column(name, type, primary_key=..., ForeignKey(target)); foreign_key is
\* <<>> or <<table name, column name>>.
Column(name, type, primary_key, foreign_key) ==
    [name |-> name, type |-> type, primary_key |-> primary_key, foreign_key |-> foreign_key]

\* str(column) of a column attached to a table: "table.column".
ColumnStr(table_name, column) == table_name \o "." \o column.name

\* Table(name, metadata, *columns): the columns, and the primary key
\* constraint, made of the columns given with primary_key=True.
Table(name, columns) ==
    [name |-> name, columns |-> columns,
     primary_key |-> SelectSeq(columns, LAMBDA c : c.primary_key)]

\* table.primary_key.columns
PrimaryKeyColumns(table) == table.primary_key

\* name in (name for name in table_metadata.tables)
Contains(tables, name) == \E k \in DOMAIN tables : tables[k].name = name

TableIndex(tables, name) == CHOOSE k \in DOMAIN tables : tables[k].name = name

\* table.append_column(column): a column of a name the table already has
\* takes that column's place, any other goes to the end.
AppendColumnBlind(columns, column) ==
    Append(columns, column)

AppendColumn(columns, column) ==
    IF \E k \in DOMAIN columns : columns[k].name = column.name
    THEN [k \in DOMAIN columns |->
              IF columns[k].name = column.name THEN column ELSE columns[k]]
    ELSE Append(columns, column)

\* append_column refuses, after it has put the column in place, a column
\* without primary_key=True of the name of a column of the primary key.
RedefinesPrimaryKey(table, column) ==
    /\ ~column.primary_key
    /\ \E k \in DOMAIN table.primary_key : table.primary_key[k].name = column.name

ArgumentError(table, column) ==
    [exception |-> "ArgumentError", args |-> << column.name, table.name >>]

----------------------------------------------------------------------------
(* construct_column *)

UnknownType(column_type) == column_type \notin TypeCatalog

\* As line 30 would be with the type name alone.
UnknownTypeErrorBare(name, column_type) ==
    [exception |-> "KeyError", args |-> <<column_type>>]

\* raise KeyError('Unknown type "%s" in column "%s"' % (column_type, name))
UnknownTypeError(name, column_type) ==
    [exception |-> "KeyError", args |-> <<column_type, name>>]

construct_column(name, column_type) == Column(name, column_type, FALSE, <<>>)

----------------------------------------------------------------------------
(* The state. *)

Frame(table_def, pc, i, primary_key) ==
    [table_def |-> table_def, pc |-> pc, i |-> i, primary_key |-> primary_key]

Top == stack[Len(stack)]
TopDef == defs[Top.table_def]

SetTop(f) == [stack EXCEPT ![Len(stack)] = f]

Init ==
    /\ Load(defs)
    /\ registry = <<>>
    /\ builder = <<>>
    /\ previous = <<>>
    /\ stack = <<>>
    /\ status = "idle"
    /\ error = NoError
    /\ mode = ""
    /\ passed = 0

----------------------------------------------------------------------------
(* The outermost calls. *)

Finished == status \in {"returned", "raised"}

Call(which) ==
    /\ stack' = << Frame(1, "check", 0, NoColumn) >>
    /\ status' = "running"
    /\ error' = NoError
    /\ mode' = which
    /\ passed' = 0
    /\ UNCHANGED defs

\* generate_metadata, lines 100-104: the module's own call, on the document
\* as yaml.load returns it and on a new MetaData.
GenerateMetadata ==
    /\ status = "idle"
    /\ registry' = <<>>
    /\ builder' = <<>>
    /\ UNCHANGED previous
    /\ Call("generate_metadata")

\* A caller that holds the definition objects builds the root once more,
\* into a new MetaData.
BuildIntoNewRegistry ==
    /\ status = "returned"
    /\ previous' = registry
    /\ registry' = <<>>
    /\ builder' = <<>>
    /\ Call("new_registry")

\* ... or into the MetaData of the build that has returned.
BuildIntoSameRegistry ==
    /\ status = "returned"
    /\ UNCHANGED <<registry, builder, previous>>
    /\ Call("same_registry")

----------------------------------------------------------------------------
(* construct_table, one statement a step. *)

Running(pc) == status = "running" /\ Top.pc = pc

Raise(e) ==
    /\ status' = "raised"
    /\ error' = e
    /\ UNCHANGED <<defs, registry, builder, previous, stack, mode, passed>>

\* return: the frame is popped; the outermost return ends the build (for
\* generate_metadata, line 106 hands the MetaData to the caller).
Return ==
    /\ stack' = SubSeq(stack, 1, Len(stack) - 1)
    /\ status' = IF Len(stack) = 1 THEN "returned" ELSE "running"
    /\ UNCHANGED <<defs, registry, builder, previous, error, mode, passed>>

\* As line 66 would be if it asked whether the MetaData has any table.
AlreadyConstructedAny(table_def) == registry # <<>>

\* As line 66 would be without the check.
AlreadyConstructedNever(table_def) == FALSE

\* line 66
AlreadyConstructed(table_def) == Contains(registry, table_def.name)

\* lines 66-67
CheckConstructed ==
    /\ Running("check")
    /\ IF AlreadyConstructed(TopDef)
       THEN Return
       ELSE /\ stack' = SetTop([Top EXCEPT !.pc = "primary_key"])
            /\ passed' = passed + 1
            /\ UNCHANGED <<defs, registry, builder, previous, status, error, mode>>

HasKey(columns, key) == \E k \in DOMAIN columns : columns[k].name = key
Value(columns, key) == columns[CHOOSE k \in DOMAIN columns : columns[k].name = key]

\* As line 75 would be if it removed nothing.
DelNothing(columns, key) == columns

\* del columns[key]
Del(columns, key) == SelectSeq(columns, LAMBDA e : e.name # key)

\* As line 77 would be without primary_key=True.
DefaultPrimaryKeyUnflagged == Column("id", "Integer", FALSE, <<>>)

\* line 77
DefaultPrimaryKey == Column("id", "Integer", TRUE, <<>>)

\* lines 72-73
ExplicitPrimaryKey(name, column_type) == construct_column(name, column_type)

\* lines 71-77
ResolvePrimaryKey ==
    /\ Running("primary_key")
    /\ IF HasPrimaryKeyAttr(TopDef)
       THEN LET key == TopDef.primary_key[1] IN
            IF ~HasKey(TopDef.columns, key)
            THEN Raise([exception |-> "KeyError", args |-> <<key>>])
            ELSE LET column_type == Value(TopDef.columns, key).type IN
                 IF UnknownType(column_type)
                 THEN Raise(UnknownTypeError(key, column_type))
                 ELSE /\ stack' = SetTop([Top EXCEPT
                                             !.pc = "table",
                                             !.primary_key = ExplicitPrimaryKey(key, column_type)])
                      /\ defs' = [defs EXCEPT ![Top.table_def].columns = Del(@, key)]
                      /\ UNCHANGED <<registry, builder, previous, status, error, mode, passed>>
       ELSE /\ stack' = SetTop([Top EXCEPT !.pc = "table", !.primary_key = DefaultPrimaryKey])
            /\ UNCHANGED <<defs, registry, builder, previous, status, error, mode, passed>>

\* As line 82 would be if the MetaData kept its newest table first.
RegisterTableFirst ==
    /\ Running("table")
    /\ registry' = << Table(TopDef.name, << Top.primary_key >>) >> \o registry
    /\ builder' = << Top.table_def >> \o builder
    /\ stack' = SetTop([Top EXCEPT !.pc = "columns", !.i = 1])
    /\ UNCHANGED <<defs, previous, status, error, mode, passed>>

\* As line 82 would be if the Table were made after the loop of lines 85-91.
RegisterTableLate ==
    /\ Running("table")
    /\ stack' = SetTop([Top EXCEPT !.pc = "columns", !.i = 1])
    /\ UNCHANGED <<defs, registry, builder, previous, status, error, mode, passed>>

\* line 82: Table(name, metadata, column) refuses a name the MetaData has.
RegisterTable ==
    /\ Running("table")
    /\ IF Contains(registry, TopDef.name)
       THEN Raise([exception |-> "InvalidRequestError", args |-> <<TopDef.name, "already defined">>])
       ELSE /\ registry' = Append(registry, Table(TopDef.name, << Top.primary_key >>))
            /\ builder' = Append(builder, Top.table_def)
            /\ stack' = SetTop([Top EXCEPT !.pc = "columns", !.i = 1])
            /\ UNCHANGED <<defs, previous, status, error, mode, passed>>

\* line 85, the loop is exhausted
EndOfColumns ==
    /\ Running("columns")
    /\ Top.i > Len(TopDef.columns)
    /\ Return

AppendTo(tables, name, column) ==
    [tables EXCEPT ![TableIndex(tables, name)].columns = AppendColumn(@, column)]

\* table.append_column(column) on the table of that name, after which the
\* call goes on as frame f, unless append_column raises.
Appended(name, column, f) ==
    /\ registry' = AppendTo(registry, name, column)
    /\ IF RedefinesPrimaryKey(registry[TableIndex(registry, name)], column)
       THEN /\ status' = "raised"
            /\ error' = ArgumentError(registry[TableIndex(registry, name)], column)
            /\ UNCHANGED stack
       ELSE /\ stack' = SetTop(f)
            /\ UNCHANGED <<status, error>>
    /\ UNCHANGED <<defs, builder, previous, mode, passed>>

\* lines 90-91
AddColumn ==
    /\ Running("columns")
    /\ Top.i <= Len(TopDef.columns)
    /\ LET value == TopDef.columns[Top.i] IN
       /\ ~IsTableDefinition(value)
       /\ IF UnknownType(value.type)
          THEN Raise(UnknownTypeError(value.name, value.type))
          ELSE Appended(TopDef.name, construct_column(value.name, value.type),
                        [Top EXCEPT !.i = @ + 1])

\* lines 86-88: the recursive call; the caller resumes at line 89
Descend ==
    /\ Running("columns")
    /\ Top.i <= Len(TopDef.columns)
    /\ LET value == TopDef.columns[Top.i] IN
       /\ IsTableDefinition(value)
       /\ stack' = Append(SetTop([Top EXCEPT !.pc = "foreign_key"]),
                          Frame(value.table, "check", 0, NoColumn))
       /\ UNCHANGED <<defs, registry, builder, previous, status, error, mode, passed>>

\* line 48: '%s_%s' % (one_table.name, first_primary_key), the second
\* argument being the Column, not its name.
ForeignKeyName(one_table, first_primary_key) ==
    one_table.name \o "_" \o ColumnStr(one_table.name, first_primary_key)

\* line 55
ForeignKeyColumn(one_table, first_primary_key) ==
    Column(ForeignKeyName(one_table, first_primary_key), "None", FALSE,
           << one_table.name, first_primary_key.name >>)

\* line 89, construct_foreign_key (lines 43-55)
ConstructForeignKey ==
    /\ Running("foreign_key")
    /\ LET one_table == registry[TableIndex(registry, TopDef.name)]
           many_name == defs[TopDef.columns[Top.i].table].name
           keys == PrimaryKeyColumns(one_table)
       IN  IF keys = <<>>
           THEN Raise([exception |-> "StopIteration", args |-> <<>>])
           ELSE IF ~Contains(registry, many_name)
           THEN Raise([exception |-> "InvalidRequestError", args |-> <<many_name, "not defined">>])
           ELSE Appended(many_name, ForeignKeyColumn(one_table, keys[1]),
                         [Top EXCEPT !.pc = "columns", !.i = @ + 1])

----------------------------------------------------------------------------

Next ==
    \/ GenerateMetadata
    \/ BuildIntoNewRegistry
    \/ BuildIntoSameRegistry
    \/ CheckConstructed
    \/ ResolvePrimaryKey
    \/ RegisterTable
    \/ EndOfColumns
    \/ AddColumn
    \/ Descend
    \/ ConstructForeignKey

Spec == Init /\ [][Next]_vars

----------------------------------------------------------------------------
(* Vocabulary of the properties. *)

Range(seq) == {seq[k] : k \in DOMAIN seq}

RECURSIVE Reach(_)
Reach(S) ==
    LET more == S \cup UNION {Nested(defs, i) : i \in S}
    IN  IF more = S THEN S ELSE Reach(more)

\* The table names of the definition graph under the root.
GraphNames == {defs[i].name : i \in Reach({1})}

RegisteredNames == {t.name : t \in Range(registry)}

IsRegistered(name) == name \in RegisteredNames
TableNamed(name) == registry[TableIndex(registry, name)]

ForeignKeys(table) == SelectSeq(table.columns, LAMBDA c : c.foreign_key # <<>>)

\* Every type name the definitions under the root use is in the catalog.
WellTyped ==
    \A i \in Reach({1}) : \A k \in DOMAIN defs[i].columns :
        IsTableDefinition(defs[i].columns[k]) \/ ~UnknownType(defs[i].columns[k].type)

\* A measure of the work a running build has left: the names not yet
\* registered weigh more than any one definition's columns, every entry of
\* a columns map weighs 5, every statement of a call 1.
Weight == 5 * MaxEntries + 6

FrameWork(f) ==
    LET left == Len(defs[f.table_def].columns) - f.i + 1 IN
    CASE f.pc = "check" -> 3
      [] f.pc = "primary_key" -> 2
      [] f.pc = "table" -> 1
      [] f.pc = "columns" -> 1 + 5 * left
      [] f.pc = "foreign_key" -> 5 * left - 3

RECURSIVE StackWork(_)
StackWork(k) == IF k = 0 THEN 0 ELSE FrameWork(stack[k]) + StackWork(k - 1)

Work == Weight * Cardinality(GraphNames \ RegisteredNames) + StackWork(Len(stack))

----------------------------------------------------------------------------
(* C1 *)

\* C1: a build terminates whatever the definition graph, cyclic ones
\* included: every step of a running build lowers the work left, a natural
\* number, and the calls of one build that get past the check of line 66
\* are at most as many as the distinct table names of the graph.
C1_BuildTerminates ==
    /\ [](passed <= Cardinality(GraphNames) /\ Work >= 0)
    /\ [][(status = "running" /\ status' = "running") => Work' < Work]_vars

\* A call on a cycle met a name that an unfinished call has registered.
C1_Witness ==
    /\ status = "running"
    /\ Len(stack) >= 2
    /\ Top.pc = "check"
    /\ \E k \in 1..(Len(stack) - 1) :
          /\ defs[stack[k].table_def].name = TopDef.name
          /\ stack[k].pc = "foreign_key"

----------------------------------------------------------------------------
(* C2 *)

\* C2: in every state, during a build as after it, no two tables of the
\* registry have the same name, and line 82 never meets a name the registry
\* already has (no build ends with the "already defined" error).
C2_NamesUnique ==
    /\ \A j, k \in DOMAIN registry : registry[j].name = registry[k].name => j = k
    /\ ~(status = "raised" /\ error.exception = "InvalidRequestError"
            /\ error.args[2] = "already defined")

\* A nested call is about to check a name that another definition object
\* has registered.
C2_Witness ==
    /\ status = "running"
    /\ Len(stack) >= 2
    /\ Top.pc = "check"
    /\ AlreadyConstructed(TopDef)
    /\ \A k \in 1..(Len(stack) - 1) : stack[k].table_def # Top.table_def

----------------------------------------------------------------------------
(* C3 *)

\* C3: a second build of the same root into the registry of a build that
\* has returned raises nothing, gets past the check of line 66 in no call,
\* and changes nothing in the registry: no step of it does.
C3_SecondBuildIsNoOp ==
    [][mode' = "same_registry" =>
          /\ registry' = registry
          /\ status' # "raised"
          /\ passed' = 0]_vars

\* The second build has returned, on a registry with a foreign key in it.
C3_Witness ==
    /\ mode = "same_registry"
    /\ status = "returned"
    /\ Len(registry) >= 2
    /\ \E t \in Range(registry) : ForeignKeys(t) # <<>>

----------------------------------------------------------------------------
(* C4 *)

\* The build was ended by construct_column meeting an unknown type name.
FailedOnType ==
    /\ status = "raised"
    /\ error.exception = "KeyError"
    /\ \/ Top.pc = "columns"
       \/ Top.pc = "primary_key" /\ HasKey(TopDef.columns, TopDef.primary_key[1])

FailingEntry ==
    IF Top.pc = "columns" THEN TopDef.columns[Top.i]
    ELSE Value(TopDef.columns, TopDef.primary_key[1])

\* The calls whose table is registered and whose loop has not ended.
Unfinished == {k \in DOMAIN stack : stack[k].pc \in {"columns", "foreign_key"}}

CarriesBothNames ==
    /\ UnknownType(FailingEntry.type)
    /\ error.args = << FailingEntry.type, FailingEntry.name >>

\* C4 as stated: an unknown type name ends the build with an error that
\* carries the type name and the column name, and the registry then holds no
\* table that the failed build populated only in part.
C4_NoPartialTable ==
    FailedOnType => CarriesBothNames /\ Unfinished = {}

\* C4, amended: the error carries both names; the registry keeps every table
\* registered before the failure, the tables of the unfinished calls among
\* them, each with its key column first and, for the table that declared the
\* failing column, without that column.
C4_PartialTablesRemain ==
    FailedOnType =>
        /\ CarriesBothNames
        /\ \A k \in Unfinished :
              LET name == defs[stack[k].table_def].name IN
              /\ IsRegistered(name)
              /\ Head(TableNamed(name).columns) = stack[k].primary_key
        /\ Top.pc = "columns" =>
              \A c \in Range(TableNamed(TopDef.name).columns) : c.name # FailingEntry.name

\* A nested table failed on its second entry or later: it and its parent
\* are in the registry, both unfinished.
C4_Witness ==
    /\ FailedOnType
    /\ Top.pc = "columns"
    /\ Top.i >= 2
    /\ Len(stack) >= 2
    /\ Len(registry) >= 2

----------------------------------------------------------------------------
(* C5 *)

\* The calls that have appended the foreign key for their entry number i - 1.
Nestings ==
    {k \in DOMAIN stack :
        /\ stack[k].pc = "columns"
        /\ stack[k].i > 1
        /\ IsTableDefinition(defs[stack[k].table_def].columns[stack[k].i - 1])}

\* C5: once parent P with primary key column k has handled a nested child C,
\* C has a column named "<P>_<k>" that references column k of P.
C5_ForeignKeyNaming ==
    \A n \in Nestings :
        LET table_def == defs[stack[n].table_def]
            parent == TableNamed(table_def.name)
            key == Head(parent.columns)
            child == TableNamed(defs[table_def.columns[stack[n].i - 1].table].name)
        IN  \E c \in Range(child.columns) :
               /\ c.name = parent.name \o "_" \o key.name
               /\ c.foreign_key = << parent.name, key.name >>

----------------------------------------------------------------------------
(* C6 *)

TableEntries(table_def) ==
    SelectSeq(table_def.columns, LAMBDA e : IsTableDefinition(e))

\* The root nests children, all of its own name.
SelfCycle ==
    /\ TableEntries(defs[1]) # <<>>
    /\ \A e \in Range(TableEntries(defs[1])) : defs[e.table].name = defs[1].name

\* C6: a well-typed root that nests a child of its own name, built into an
\* empty registry, returns with exactly one table in the registry, and that
\* table has a foreign-key column referencing its own key column.
C6_SelfCycle ==
    (mode = "generate_metadata" /\ SelfCycle /\ WellTyped /\ Finished) =>
        /\ status = "returned"
        /\ Len(registry) = 1
        /\ \E c \in Range(registry[1].columns) :
              c.foreign_key = << registry[1].name, Head(registry[1].columns).name >>

----------------------------------------------------------------------------
(* C7 *)

\* The root A nests one table B of another name, which nests one table of
\* the name A.
MutualCycle ==
    /\ Len(TableEntries(defs[1])) = 1
    /\ LET b == defs[TableEntries(defs[1])[1].table] IN
       /\ b.name # defs[1].name
       /\ Len(TableEntries(b)) = 1
       /\ defs[TableEntries(b)[1].table].name = defs[1].name

ReferencesTo(table, name) ==
    SelectSeq(table.columns, LAMBDA c : c.foreign_key # <<>> /\ c.foreign_key[1] = name)

\* C7: a well-typed A that nests B that nests A, built into an empty
\* registry, returns; the registry is A, B, each once; B has exactly one
\* foreign-key column referencing the key column of A, and neither table has
\* a foreign key twice.
C7_MutualCycle ==
    (mode = "generate_metadata" /\ MutualCycle /\ WellTyped /\ Finished) =>
        /\ status = "returned"
        /\ Len(registry) = 2
        /\ registry[1].name = defs[1].name
        /\ registry[2].name # defs[1].name
        /\ Len(ReferencesTo(registry[2], registry[1].name)) = 1
        /\ ReferencesTo(registry[2], registry[1].name)[1].foreign_key =
              << registry[1].name, Head(registry[1].columns).name >>
        /\ Len(ForeignKeys(registry[1])) = 1
        /\ Len(ForeignKeys(registry[2])) = 1

----------------------------------------------------------------------------
(* C8 *)

\* C8: in every state, the first column of every table of the registry is a
\* primary key column of that table.
C8_PrimaryKeyFirst ==
    \A t \in Range(registry) : t.columns # <<>> /\ Head(t.columns).primary_key

----------------------------------------------------------------------------
(* C9 *)

\* C9: in every state, every table of the registry has exactly one primary
\* key column, from the step that registers it on.
C9_OnePrimaryKey ==
    \A t \in Range(registry) : Len(PrimaryKeyColumns(t)) = 1

----------------------------------------------------------------------------
(* C10 *)

Shape(table) ==
    [name |-> table.name,
     columns |-> [k \in DOMAIN table.columns |->
                    << table.columns[k].name, table.columns[k].primary_key,
                       table.columns[k].foreign_key >>]]

\* C10: generate_metadata on the people document returns a registry of
\* exactly people [id (key), firstName, lastName] and items [id (key),
\* description, people_id (foreign key to people.id)].
C10_EndToEnd ==
    (mode = "generate_metadata" /\ defs = PeopleDocument /\ Finished) =>
        /\ status = "returned"
        /\ Len(registry) = 2
        /\ Shape(registry[1]) =
              [name |-> "people",
               columns |-> << <<"id", TRUE, <<>> >>,
                              <<"firstName", FALSE, <<>> >>,
                              <<"lastName", FALSE, <<>> >> >>]
        /\ Shape(registry[2]) =
              [name |-> "items",
               columns |-> << <<"id", TRUE, <<>> >>,
                              <<"description", FALSE, <<>> >>,
                              <<"people_id", FALSE, <<"people", "id">> >> >>]

----------------------------------------------------------------------------
(* C11 *)

\* The definition object whose call registered table number k.
BuilderOf(k) == defs[builder[k]]

FlaggedColumns(table) == SelectSeq(table.columns, LAMBDA c : c.primary_key)

\* C11: a table registered for a definition without a declared primary key
\* has exactly one primary key column, named id, of type Integer and
\* flagged as primary key; once the build has returned that column is also
\* the only flagged column among the table's columns.
C11_DefaultPrimaryKey ==
    \A k \in DOMAIN registry :
        ~HasPrimaryKeyAttr(BuilderOf(k)) =>
            /\ Len(PrimaryKeyColumns(registry[k])) = 1
            /\ PrimaryKeyColumns(registry[k])[1].name = "id"
            /\ PrimaryKeyColumns(registry[k])[1].type = "Integer"
            /\ PrimaryKeyColumns(registry[k])[1].primary_key
            /\ status = "returned" =>
                  FlaggedColumns(registry[k]) = PrimaryKeyColumns(registry[k])

\* A build has returned with a table of the default key that also has an
\* ordinary column and a foreign key.
C11_Witness ==
    /\ status = "returned"
    /\ \E k \in DOMAIN registry :
          /\ ~HasPrimaryKeyAttr(BuilderOf(k))
          /\ ForeignKeys(registry[k]) # <<>>
          /\ \E c \in Range(registry[k].columns) :
                ~c.primary_key /\ c.foreign_key = <<>>

----------------------------------------------------------------------------
(* C12 *)

AllNames == {defs[i].name : i \in DOMAIN defs}

\* The call that registered table number k has not left its loop.
Populating(k) ==
    \E j \in DOMAIN stack :
        stack[j].table_def = builder[k] /\ stack[j].pc \in {"columns", "foreign_key"}

\* 0 Unseen, 1 PrimaryKeyResolved, 2 Registered, 3 ColumnsPopulated
Phase(name) ==
    IF IsRegistered(name)
    THEN IF Populating(TableIndex(registry, name)) THEN 2 ELSE 3
    ELSE IF \E j \in DOMAIN stack :
               defs[stack[j].table_def].name = name /\ stack[j].pc = "table"
         THEN 1 ELSE 0

\* C12: during a build the construction of every table moves through
\* Unseen, PrimaryKeyResolved, Registered, ColumnsPopulated one state at a
\* time and never back; a call that has a callee has resolved its key and
\* registered its table, so that only the innermost call can be before
\* Registered and no other call can meet a table in an earlier state.
C12_Phases ==
    /\ [](\A j \in DOMAIN stack :
             j < Len(stack) =>
                 /\ stack[j].pc = "foreign_key"
                 /\ stack[j].primary_key # NoColumn
                 /\ Phase(defs[stack[j].table_def].name) = 2)
    /\ [][status = "running" =>
             \A name \in AllNames : Phase(name)' \in {Phase(name), Phase(name) + 1}]_vars

\* A nested call checks the name of a table that is Registered and still
\* being populated, while another table is ColumnsPopulated.
C12_Witness ==
    /\ status = "running"
    /\ Len(stack) >= 2
    /\ Top.pc = "check"
    /\ Phase(TopDef.name) = 2
    /\ \E name \in AllNames : Phase(name) = 3

----------------------------------------------------------------------------
(* C13 *)

\* The nested definition whose foreign key the innermost call is about to
\* make (line 89).
ManyDef == defs[TopDef.columns[Top.i].table]

\* C13: whenever a call is at line 89 the nested table's name is in the
\* registry, and no build ends with the "not defined" error of line 51.
C13_ChildRegistered ==
    /\ (status = "running" /\ Top.pc = "foreign_key") => Contains(registry, ManyDef.name)
    /\ ~(status = "raised" /\ error.exception = "InvalidRequestError"
            /\ error.args[2] = "not defined")

\* A call is at line 89 for a child whose table another definition object
\* registered, in an earlier traversal.
C13_Witness ==
    /\ status = "running"
    /\ Top.pc = "foreign_key"
    /\ Contains(registry, ManyDef.name)
    /\ builder[TableIndex(registry, ManyDef.name)] # TopDef.columns[Top.i].table

----------------------------------------------------------------------------
(* C14 *)

Names(seq) == [k \in DOMAIN seq |-> seq[k].name]

\* The plain entries of a definition, in the order of its columns map (the
\* entry of a declared key is not among them once line 75 has run).
PlainEntries(table_def) == SelectSeq(table_def.columns, LAMBDA e : ~IsTableDefinition(e))

KeyName(table_def) ==
    IF HasPrimaryKeyAttr(table_def) THEN table_def.primary_key[1] ELSE "id"

\* The ordinary columns of table number k: neither flagged as key, nor the
\* declared key column, nor a foreign key.
OrdinaryColumns(k) ==
    SelectSeq(registry[k].columns,
              LAMBDA c : /\ ~c.primary_key
                         /\ c.foreign_key = <<>>
                         /\ ~(HasPrimaryKeyAttr(BuilderOf(k)) /\ c.name = KeyName(BuilderOf(k))))

IsPrefix(s, t) == Len(s) <= Len(t) /\ s = SubSeq(t, 1, Len(s))

\* C14: in every state the ordinary columns of a table are, in this order,
\* the first plain entries of the definition that built it: all of them
\* once its call has left the loop.
C14_DeclarationOrder ==
    \A k \in DOMAIN registry :
        /\ IsPrefix(Names(OrdinaryColumns(k)), Names(PlainEntries(BuilderOf(k))))
        /\ (status # "raised" /\ ~Populating(k)) =>
              Names(OrdinaryColumns(k)) = Names(PlainEntries(BuilderOf(k)))

----------------------------------------------------------------------------
(* C15 *)

ColumnsNamed(table, name) == SelectSeq(table.columns, LAMBDA c : c.name = name)

\* C15: a table built for a definition with a declared primary key has the
\* column of that name exactly once, as its first column, and the columns
\* map that the loop of lines 85-91 goes through has no entry of that name
\* left to append.
C15_KeyConsumed ==
    \A k \in DOMAIN registry :
        HasPrimaryKeyAttr(BuilderOf(k)) =>
            /\ Len(ColumnsNamed(registry[k], KeyName(BuilderOf(k)))) = 1
            /\ Head(registry[k].columns).name = KeyName(BuilderOf(k))
            /\ ~HasKey(BuilderOf(k).columns, KeyName(BuilderOf(k)))

\* A build has returned with a table of a declared key that has another
\* column after the key.
C15_Witness ==
    /\ status = "returned"
    /\ \E k \in DOMAIN registry :
          /\ HasPrimaryKeyAttr(BuilderOf(k))
          /\ Len(registry[k].columns) >= 2

----------------------------------------------------------------------------
(* C16 *)

\* The names of the definitions of the calls that have a callee.
CallerNames == {defs[stack[j].table_def].name : j \in 1..(Len(stack) - 1)}

\* C16: during a build the registry only grows at its end, by the table of
\* the innermost call; when a nested call registers its table, the tables of
\* all the calls above it are in the registry before it, Registered and not
\* yet ColumnsPopulated.
C16_ConstructionOrder ==
    [][status = "running" =>
          /\ IsPrefix(Names(registry), Names(registry'))
          /\ Len(registry') > Len(registry) =>
                /\ Len(registry') = Len(registry) + 1
                /\ registry'[Len(registry')].name = TopDef.name
                /\ \A name \in CallerNames :
                      /\ IsRegistered(name)
                      /\ Phase(name) = 2
                      /\ Phase(name)' = 2]_vars

\* A nested call has just registered the second table, after its parent's.
C16_Witness ==
    /\ status = "running"
    /\ Len(stack) = 2
    /\ Top.pc = "columns"
    /\ Top.i = 1
    /\ Len(registry) = 2
    /\ registry[2].name = TopDef.name
    /\ registry[1].name = defs[stack[1].table_def].name

----------------------------------------------------------------------------
(* C17 *)

\* The call at line 89 is there for a reference to a table that was in the
\* registry before the reference: registered by another definition object,
\* or by a call that has not left its loop (a cycle).
LaterReference ==
    /\ Top.pc = "foreign_key"
    /\ Contains(registry, ManyDef.name)
    /\ \/ builder[TableIndex(registry, ManyDef.name)] # TopDef.columns[Top.i].table
       \/ Populating(TableIndex(registry, ManyDef.name))

Last(seq) == seq[Len(seq)]

\* C17: a call for a name the registry has returns without touching the
\* registry or the definitions and without going past line 66; the foreign
\* key step that follows leaves every other table as it was and the
\* existing table's columns as they were, with at most the one foreign key
\* column to the nesting parent added at the end.
C17_LaterReferenceIsNoOp ==
    [][status = "running" =>
          /\ (Top.pc = "check" /\ AlreadyConstructed(TopDef)) =>
                /\ registry' = registry
                /\ defs' = defs
                /\ passed' = passed
                /\ Len(stack') = Len(stack) - 1
          /\ (LaterReference /\ status' = "running") =>
                LET m == TableIndex(registry, ManyDef.name) IN
                /\ \A k \in DOMAIN registry : k # m => registry'[k] = registry[k]
                /\ \/ registry'[m].columns = registry[m].columns
                   \/ /\ IsPrefix(registry[m].columns, registry'[m].columns)
                      /\ Len(registry'[m].columns) = Len(registry[m].columns) + 1
                      /\ Last(registry'[m].columns).foreign_key # <<>>
                      /\ Last(registry'[m].columns).foreign_key[1] = TopDef.name]_vars

----------------------------------------------------------------------------
(* C18 *)

NoDuplicateColumns(table) ==
    \A i, j \in DOMAIN table.columns :
        table.columns[i].name = table.columns[j].name => i = j

\* Definition k nests one child name under two of its entries.
NestsTwice(k) ==
    \E i, j \in DOMAIN defs[k].columns :
        /\ i # j
        /\ IsTableDefinition(defs[k].columns[i])
        /\ IsTableDefinition(defs[k].columns[j])
        /\ defs[defs[k].columns[i].table].name = defs[defs[k].columns[j].table].name

\* C18: in the registry of a build that has returned, no table has two
\* columns of one name.
C18_ColumnNamesUnique ==
    status = "returned" =>
        \A k \in DOMAIN registry : NoDuplicateColumns(registry[k])

\* A build has returned whose root, without a declared key, nested one child
\* name under two entries: the child's table has the foreign key once.
C18_Witness ==
    /\ status = "returned"
    /\ mode = "generate_metadata"
    /\ NestsTwice(1)
    /\ \E i \in DOMAIN defs[1].columns :
          /\ IsTableDefinition(defs[1].columns[i])
          /\ LET child == TableNamed(defs[defs[1].columns[i].table].name) IN
             /\ \E c \in DOMAIN child.columns :
                   /\ child.columns[c].foreign_key # <<>>
                   /\ child.columns[c].foreign_key[1] = defs[1].name

----------------------------------------------------------------------------
(* C19 *)

\* C19: a build of the root into a second, empty registry, after a build
\* that has returned, returns as well and ends with the tables and columns
\* of the first.
C19_RepeatableAcrossRegistries ==
    (mode = "new_registry" /\ Finished) =>
        /\ status = "returned"
        /\ registry = previous

====
